---- MODULE Spec2Model ----
(***************************************************************************)
(* The ORIZON logo processing scripts, process_logos.py and                *)
(* process_logos_fixed.py: background removal, orange-to-purple recolor,   *)
(* the crop of reference sheets, and the two main() runs over their        *)
(* hardcoded file lists.                                                   *)
(*                                                                         *)
(* A pixel is <<r, g, b, a>>, every channel in 0..255.  An image is        *)
(* [w, h, data] with data the row-major pixel sequence (what getdata()     *)
(* returns, and what the x/y loops of the fixed script walk).              *)
(***************************************************************************)
EXTENDS Integers, Sequences, FiniteSets, TLC

VARIABLES
    variant,   \* which script runs: "process_logos" or "process_logos_fixed"
    pc,        \* position of main() ("start", "singles", "sheets", "logos",
               \* "complete", "crashed") or of a direct call ("call", "crashed")
    idx,       \* index of the next entry of the list main() is iterating
    saved,     \* output paths written so far, in order
    missing,   \* source files reported "File not found", in order
    found,     \* source files that existed when main() asked, in order
    disk,      \* direct calls: the image stored at the source path
    call,      \* direct calls: the function called and its flags
    pass,      \* direct calls: how many times the call has run
    hist       \* the most recent call's steps, each with the image after it

vars == <<variant, pc, idx, saved, missing, found, disk, call, pass, hist>>

Orig == "process_logos"
Fixed == "process_logos_fixed"

----------------------------------------------------------------------------
(* Colour definitions                                                      *)

ORANGE_COLOR == <<255, 149, 0>>
PURPLE_COLOR == <<106, 0, 255>>
ORANGE_BASE == <<255, 149, 0>>
PURPLE_TARGET == <<106, 0, 255>>

----------------------------------------------------------------------------
(* Images                                                                  *)

PixelAt(img, x, y) == img.data[y * img.w + x + 1]

\* PIL's Image.crop((0, 0, right, lower)) for a box inside the image.
Crop(img, right, lower) ==
    [w |-> right, h |-> lower,
     data |-> [k \in 1..(right * lower) |->
                 PixelAt(img, (k - 1) % right, (k - 1) \div right)]]

Step(name, img) == [step |-> name, img |-> img]

----------------------------------------------------------------------------
(* process_logos.py                                                        *)

\* n ** 0.5 of a sum of integer squares, kept to its integer part: the only
\* use compares it with an integer tolerance, and floor(x) < t iff x < t.
\* The integer part of the square root: first the block of 21 candidates
\* that holds it, then the candidate itself (3 * 255 * 255 < 462 * 462).
IntRoot(v) ==
    LET t == CHOOSE h \in 0..21 :
                 (21 * h) * (21 * h) <= v /\ v < (21 * h + 21) * (21 * h + 21)
    IN  CHOOSE k \in (21 * t)..(21 * t + 20) : k * k <= v /\ v < (k + 1) * (k + 1)

\* (n is evaluated once, then its root is taken)
ISqrt(n) == CHOOSE k \in {IntRoot(v) : v \in {n}} : TRUE

\* The channel differences summed without squaring.
color_distance_manhattan(c1, c2) ==
    (IF c1[1] < c2[1] THEN c2[1] - c1[1] ELSE c1[1] - c2[1])
    + (IF c1[2] < c2[2] THEN c2[2] - c1[2] ELSE c1[2] - c2[2])
    + (IF c1[3] < c2[3] THEN c2[3] - c1[3] ELSE c1[3] - c2[3])

color_distance(c1, c2) ==
    ISqrt((c1[1] - c2[1]) * (c1[1] - c2[1])
          + (c1[2] - c2[2]) * (c1[2] - c2[2])
          + (c1[3] - c2[3]) * (c1[3] - c2[3]))

remove_background_item(item, bg_threshold) ==
    IF item[1] > bg_threshold /\ item[2] > bg_threshold /\ item[3] > bg_threshold
    THEN <<255, 255, 255, 0>>
    ELSE IF item[1] < 20 /\ item[2] < 20 /\ item[3] < 20
         THEN <<0, 0, 0, 0>>
         ELSE item

remove_background(img, bg_threshold) ==
    [img EXCEPT !.data = [k \in 1..Len(img.data) |->
                            remove_background_item(img.data[k], bg_threshold)]]

\* The recolor writing an opaque purple instead of keeping the pixel's alpha.
convert_item_opaque(item, tolerance) ==
    IF color_distance(<<item[1], item[2], item[3]>>, ORANGE_COLOR) < tolerance
    THEN PURPLE_COLOR \o <<255>>
    ELSE item

convert_item(item, tolerance) ==
    LET r == item[1]
        g == item[2]
        b == item[3]
        a == item[4]
    IN  IF color_distance(<<r, g, b>>, ORANGE_COLOR) < tolerance
        THEN PURPLE_COLOR \o <<a>>
        ELSE item

convert_orange_to_purple(img, tolerance) ==
    [img EXCEPT !.data = [k \in 1..Len(img.data) |->
                            convert_item(img.data[k], tolerance)]]

----------------------------------------------------------------------------
(* process_logos_fixed.py                                                  *)

\* The tone test without its G > B ordering.
is_orange_tone_unordered(r, g, b, tolerance) ==
    r > 150 /\ g > 50 /\ b < 150 /\ r > g

is_orange_tone(r, g, b, tolerance) ==
    r > 150 /\ g > 50 /\ b < 150 /\ r > g /\ g > b

\* int(target * intensity) with brightness = (r + g + b) / 3 and
\* intensity = brightness / 255.0: the float product truncates to
\* floor(target * (r + g + b) / 765) for every channel sum 0..765.
\* Rounding to the nearest integer where the script truncates.
ScaleChannelRounded(target, r, g, b) ==
    (2 * target * (r + g + b) + 3 * 255) \div (2 * 3 * 255)

ScaleChannel(target, r, g, b) == (target * (r + g + b)) \div (3 * 255)

\* The dark guard written with "or" where the script has "and".
convert_pixel_fixed_dark_or(p) ==
    IF p[4] < 10 THEN p
    ELSE IF p[1] < 30 \/ p[2] < 30 \/ p[3] < 30 THEN p
    ELSE IF p[1] > 200 /\ p[2] > 200 /\ p[3] > 200 THEN p
    ELSE IF p[3] > p[1] /\ p[3] > p[2] THEN p
    ELSE IF is_orange_tone(p[1], p[2], p[3], 80)
         THEN <<ScaleChannel(PURPLE_TARGET[1], p[1], p[2], p[3]),
                ScaleChannel(PURPLE_TARGET[2], p[1], p[2], p[3]),
                ScaleChannel(PURPLE_TARGET[3], p[1], p[2], p[3]),
                p[4]>>
         ELSE p

convert_pixel_fixed(p) ==
    LET r == p[1]
        g == p[2]
        b == p[3]
        a == p[4]
    IN  IF a < 10 THEN p
        ELSE IF r < 30 /\ g < 30 /\ b < 30 THEN p
        ELSE IF r > 200 /\ g > 200 /\ b > 200 THEN p
        ELSE IF b > r /\ b > g THEN p
        ELSE IF is_orange_tone(r, g, b, 80)
             THEN <<ScaleChannel(PURPLE_TARGET[1], r, g, b),
                    ScaleChannel(PURPLE_TARGET[2], r, g, b),
                    ScaleChannel(PURPLE_TARGET[3], r, g, b),
                    a>>
             ELSE p

convert_orange_to_purple_fixed(img) ==
    [img EXCEPT !.data = [k \in 1..Len(img.data) |->
                            convert_pixel_fixed(img.data[k])]]

\* The dark test reading 150 for 15.
remove_bg_smart_pixel_dark150(p, bg_threshold) ==
    IF p[1] > bg_threshold /\ p[2] > bg_threshold /\ p[3] > bg_threshold
    THEN <<255, 255, 255, 0>>
    ELSE IF p[1] < 150 /\ p[2] < 150 /\ p[3] < 150
         THEN <<0, 0, 0, 0>>
         ELSE p

\* remove_bg_smart with the dark threshold of process_logos.py.
remove_bg_smart_pixel_dark20(p, bg_threshold) ==
    IF p[1] > bg_threshold /\ p[2] > bg_threshold /\ p[3] > bg_threshold
    THEN <<255, 255, 255, 0>>
    ELSE IF p[1] < 20 /\ p[2] < 20 /\ p[3] < 20
         THEN <<0, 0, 0, 0>>
         ELSE p

remove_bg_smart_pixel(p, bg_threshold) ==
    IF p[1] > bg_threshold /\ p[2] > bg_threshold /\ p[3] > bg_threshold
    THEN <<255, 255, 255, 0>>
    ELSE IF p[1] < 15 /\ p[2] < 15 /\ p[3] < 15
         THEN <<0, 0, 0, 0>>
         ELSE p

remove_bg_smart(img, bg_threshold) ==
    [img EXCEPT !.data = [k \in 1..Len(img.data) |->
                            remove_bg_smart_pixel(img.data[k], bg_threshold)]]

process_logo(img0, convert_to_purple, remove_bg) ==
    LET a == IF remove_bg THEN remove_bg_smart(img0, 240) ELSE img0
        b == IF convert_to_purple THEN convert_orange_to_purple_fixed(a) ELSE a
    IN  <<Step("open", img0)>>
        \o (IF remove_bg THEN <<Step("remove_bg", a)>> ELSE <<>>)
        \o (IF convert_to_purple THEN <<Step("convert", b)>> ELSE <<>>)

----------------------------------------------------------------------------
(* process_logos.py: the per-file functions, as the steps they take up to  *)
(* the save                                                                *)

process_single_icon(img0, convert_to_purple) ==
    LET a == remove_background(img0, 240)
        b == IF convert_to_purple THEN convert_orange_to_purple(a, 50) ELSE a
    IN  <<Step("open", img0), Step("remove_bg", a)>>
        \o (IF convert_to_purple THEN <<Step("convert", b)>> ELSE <<>>)

Min(m, n) == IF m < n THEN m ELSE n

\* The thirds and halves swapped between width and height.
icon_size_swapped(width, height) == Min(width \div 2, height \div 3)

icon_size(width, height) == Min(width \div 3, height \div 2)

\* The sheet cropped before its pixels are transformed, and recolored first.
process_reference_sheet_crop_first(img0, convert_to_purple) ==
    LET s == icon_size(img0.w, img0.h)
        c == Crop(img0, s, s)
        b == IF convert_to_purple THEN convert_orange_to_purple(c, 50) ELSE c
        a == remove_background(b, 240)
    IN  <<Step("open", img0), Step("crop", c)>>
        \o (IF convert_to_purple THEN <<Step("convert", b)>> ELSE <<>>)
        \o <<Step("remove_bg", a)>>

process_reference_sheet(img0, convert_to_purple) ==
    LET a == remove_background(img0, 240)
        b == IF convert_to_purple THEN convert_orange_to_purple(a, 50) ELSE a
        s == icon_size(b.w, b.h)
    IN  <<Step("open", img0), Step("remove_bg", a)>>
        \o (IF convert_to_purple THEN <<Step("convert", b)>> ELSE <<>>)
        \o <<Step("crop", Crop(b, s, s))>>

----------------------------------------------------------------------------
(* Saving                                                                  *)

Result(trace) == trace[Len(trace)].img

\* img.save(output_path, "PNG"): TRUE when the file is written.  PIL's PNG
\* encoder may refuse an image with no pixels (a crop with icon_size 0), so
\* for such an image both outcomes are possible.
SaveOutcomes(img) == IF img.w = 0 \/ img.h = 0 THEN {TRUE, FALSE} ELSE {TRUE}

WithSave(trace, ok) ==
    IF ok THEN Append(trace, Step("save", Result(trace))) ELSE trace

----------------------------------------------------------------------------
(* Inputs                                                                  *)

MaxW == 6
MaxH == 4
MaxPasses == 2

\* Channel values on both sides of every threshold the two scripts test.
Levels == {0, 14, 15, 19, 20, 29, 30, 50, 51, 149, 150, 151,
           200, 201, 240, 241, 255}
Alphas == {9, 10, 255}

\* Colours around ORANGE_COLOR at squared distance 0, 2499, 2500 and 2501,
\* and warm tones whose channel sums differ by one.
NearOrange == {<<255, 149, 0>>, <<206, 142, 7>>, <<206, 156, 7>>,
               <<205, 149, 0>>, <<255, 199, 0>>, <<255, 149, 50>>,
               <<225, 109, 0>>, <<205, 150, 0>>, <<255, 100, 0>>,
               <<255, 99, 0>>, <<230, 130, 20>>,
               <<200, 60, 40>>, <<200, 61, 40>>, <<200, 62, 40>>}

Pixels ==
    {<<r, g, b, a>> : r \in Levels, g \in Levels, b \in Levels, a \in Alphas}
    \cup {c \o <<a>> : c \in NearOrange, a \in Alphas}

PixelImages == {[w |-> 1, h |-> 1, data |-> <<p>>] : p \in Pixels}

Palette == << <<255, 149, 0, 255>>, <<250, 250, 250, 255>>,
              <<5, 5, 5, 255>>, <<0, 212, 255, 255>>,
              <<200, 100, 40, 128>>, <<128, 128, 128, 5>>,
              <<240, 140, 10, 255>> >>

\* A w x h sheet whose pixel at (x, y) is a palette colour chosen by the
\* coordinates, so that neighbouring pixels differ.
SheetImage(w, h, p) ==
    [w |-> w, h |-> h,
     data |-> [k \in 1..(w * h) |->
                 Palette[((((k - 1) % w) + 3 * ((k - 1) \div w) + p)
                          % Len(Palette)) + 1]]]

SheetImages == {SheetImage(w, h, p) : w \in 1..MaxW, h \in 1..MaxH, p \in 0..1}

NoImage == [w |-> 0, h |-> 0, data |-> <<>>]
NoCall == [fn |-> "main", convert |-> FALSE, remove_bg |-> FALSE]

----------------------------------------------------------------------------
(* Direct calls: one function of one script is called on a stored image,   *)
(* and called again on what it wrote.                                      *)

Calls(v) ==
    IF v = Orig
    THEN {[fn |-> f, convert |-> c, remove_bg |-> TRUE] :
             f \in {"process_single_icon", "process_reference_sheet"},
             c \in BOOLEAN}
         \cup {[fn |-> f, convert |-> FALSE, remove_bg |-> FALSE] :
                 f \in {"remove_background", "convert_orange_to_purple"}}
    ELSE {[fn |-> "process_logo", convert |-> c, remove_bg |-> rb] :
             c \in BOOLEAN, rb \in BOOLEAN}
         \cup {[fn |-> f, convert |-> FALSE, remove_bg |-> FALSE] :
                 f \in {"remove_bg_smart", "convert_orange_to_purple"}}

InitCall ==
    /\ variant \in {Orig, Fixed}
    /\ pc = "call"
    /\ idx = 0
    /\ saved = <<>>
    /\ missing = <<>>
    /\ found = <<>>
    /\ disk \in PixelImages \cup SheetImages
    /\ call \in Calls(variant)
    /\ pass = 0
    /\ hist = <<>>

\* A call that ran to its save: the trace is kept and the output replaces
\* the stored image.
Ran(trace, ok) ==
    /\ hist' = WithSave(trace, ok)
    /\ pc' = IF ok THEN "call" ELSE "crashed"
    /\ disk' = IF ok THEN Result(trace) ELSE disk
    /\ pass' = pass + 1
    /\ UNCHANGED <<variant, idx, saved, missing, found, call>>

Callable(v, fn) ==
    /\ pc = "call"
    /\ variant = v
    /\ call.fn = fn
    /\ pass < MaxPasses

CallProcessSingleIcon ==
    /\ Callable(Orig, "process_single_icon")
    /\ LET trace == process_single_icon(disk, call.convert)
       IN  \E ok \in SaveOutcomes(Result(trace)) : Ran(trace, ok)

CallProcessReferenceSheet ==
    /\ Callable(Orig, "process_reference_sheet")
    /\ LET trace == process_reference_sheet(disk, call.convert)
       IN  \E ok \in SaveOutcomes(Result(trace)) : Ran(trace, ok)

CallProcessLogo ==
    /\ Callable(Fixed, "process_logo")
    /\ LET trace == process_logo(disk, call.convert, call.remove_bg)
       IN  \E ok \in SaveOutcomes(Result(trace)) : Ran(trace, ok)

\* A function called by itself returns the image; nothing is saved.
Returned(name, out) ==
    /\ hist' = <<Step("arg", disk), Step(name, out)>>
    /\ disk' = out
    /\ pass' = pass + 1
    /\ UNCHANGED <<variant, pc, idx, saved, missing, found, call>>

CallRemoveBackground ==
    /\ Callable(Orig, "remove_background")
    /\ Returned("remove_bg", remove_background(disk, 240))

CallConvertOrangeToPurple ==
    /\ Callable(Orig, "convert_orange_to_purple")
    /\ Returned("convert", convert_orange_to_purple(disk, 50))

CallRemoveBgSmart ==
    /\ Callable(Fixed, "remove_bg_smart")
    /\ Returned("remove_bg", remove_bg_smart(disk, 240))

CallConvertOrangeToPurpleFixed ==
    /\ Callable(Fixed, "convert_orange_to_purple")
    /\ Returned("convert", convert_orange_to_purple_fixed(disk))

NextCall ==
    \/ CallProcessSingleIcon
    \/ CallProcessReferenceSheet
    \/ CallProcessLogo
    \/ CallRemoveBackground
    \/ CallConvertOrangeToPurple
    \/ CallRemoveBgSmart
    \/ CallConvertOrangeToPurpleFixed

SpecCall == InitCall /\ [][NextCall]_vars

----------------------------------------------------------------------------
(* main() of process_logos.py                                              *)

\* Source files are named by the time stamp in their file name.
files_to_process ==
    << [src |-> "11_04_27", out |-> "gargantua-blue-dark.png", convert |-> FALSE],
       [src |-> "11_04_30", out |-> "gargantua-purple-dark.png", convert |-> TRUE],
       [src |-> "11_04_38", out |-> "orizon-full-blue-dark.png", convert |-> FALSE],
       [src |-> "11_08_48", out |-> "gargantua-blue-light.png", convert |-> FALSE],
       [src |-> "11_11_07", out |-> "gargantua-purple-dark-alt.png", convert |-> TRUE],
       [src |-> "11_12_54", out |-> "orizon-full-purple-dark.png", convert |-> TRUE],
       [src |-> "11_28_56", out |-> "orizon-full-blue-light.png", convert |-> FALSE] >>

\* icon_name = f"{base_name}-icon.png"
reference_sheets ==
    << [src |-> "11_20_49", out |-> "gargantua-blue-icon.png", convert |-> FALSE],
       [src |-> "11_21_57", out |-> "gargantua-purple-icon.png", convert |-> TRUE],
       [src |-> "11_27_14", out |-> "gargantua-purple-alt-icon.png", convert |-> TRUE] >>

(* main() of process_logos_fixed.py: its process_logo calls, in order      *)
logo_calls ==
    << [src |-> "11_04_27", out |-> "gargantua-blue-dark.png",
        convert |-> FALSE, remove_bg |-> TRUE],
       [src |-> "11_08_48", out |-> "gargantua-blue-light.png",
        convert |-> FALSE, remove_bg |-> TRUE],
       [src |-> "11_04_38", out |-> "orizon-full-blue-dark.png",
        convert |-> FALSE, remove_bg |-> TRUE],
       [src |-> "11_28_56", out |-> "orizon-full-blue-light.png",
        convert |-> FALSE, remove_bg |-> TRUE],
       [src |-> "11_04_30", out |-> "gargantua-purple-dark.png",
        convert |-> TRUE, remove_bg |-> TRUE],
       [src |-> "11_11_07", out |-> "gargantua-purple-light.png",
        convert |-> TRUE, remove_bg |-> TRUE],
       [src |-> "11_12_54", out |-> "orizon-full-purple-dark.png",
        convert |-> TRUE, remove_bg |-> TRUE] >>

\* What an existing source file decodes to: artwork large enough for the
\* reference-sheet crop to hold at least one pixel.
SourceImages == {SheetImage(w, h, p) : w \in {3, MaxW}, h \in {2, MaxH}, p \in 0..1}

Init ==
    /\ variant \in {Orig, Fixed}
    /\ pc = "start"
    /\ idx = 0
    /\ saved = <<>>
    /\ missing = <<>>
    /\ found = <<>>
    /\ disk = NoImage
    /\ call = NoCall
    /\ pass = 0
    /\ hist = <<>>

\* os.makedirs and the banner; then the first loop (or the first call).
MainStart ==
    /\ pc = "start"
    /\ pc' = IF variant = Orig THEN "singles" ELSE "logos"
    /\ idx' = 1
    /\ UNCHANGED <<variant, saved, missing, found, disk, call, pass, hist>>

\* One iteration of a loop whose file exists: the call runs to its save.
Processed(fn, entry, remove_bg, trace, ok) ==
    /\ found' = Append(found, entry.src)
    /\ call' = [fn |-> fn, convert |-> entry.convert, remove_bg |-> remove_bg]
    /\ hist' = WithSave(trace, ok)
    /\ saved' = IF ok THEN Append(saved, entry.out) ELSE saved
    /\ pc' = IF ok THEN pc ELSE "crashed"
    /\ idx' = idx + 1
    /\ UNCHANGED <<variant, missing, disk, pass>>

\* A missing file ending the run instead of being skipped.
WarnedAndStopped(entry) ==
    /\ missing' = Append(missing, entry.src)
    /\ pc' = "crashed"
    /\ UNCHANGED <<variant, idx, saved, found, disk, call, pass, hist>>

\* One iteration whose file does not exist: the warning, and on to the next.
Warned(entry) ==
    /\ missing' = Append(missing, entry.src)
    /\ idx' = idx + 1
    /\ UNCHANGED <<variant, pc, saved, found, disk, call, pass, hist>>

SingleIconFound ==
    /\ pc = "singles"
    /\ idx <= Len(files_to_process)
    /\ \E img0 \in SourceImages :
         LET entry == files_to_process[idx]
             trace == process_single_icon(img0, entry.convert)
         IN  \E ok \in SaveOutcomes(Result(trace)) :
                 Processed("process_single_icon", entry, TRUE, trace, ok)

SingleIconMissing ==
    /\ pc = "singles"
    /\ idx <= Len(files_to_process)
    /\ Warned(files_to_process[idx])

SinglesDone ==
    /\ pc = "singles"
    /\ idx > Len(files_to_process)
    /\ pc' = "sheets"
    /\ idx' = 1
    /\ UNCHANGED <<variant, saved, missing, found, disk, call, pass, hist>>

SheetFound ==
    /\ pc = "sheets"
    /\ idx <= Len(reference_sheets)
    /\ \E img0 \in SourceImages :
         LET entry == reference_sheets[idx]
             trace == process_reference_sheet(img0, entry.convert)
         IN  \E ok \in SaveOutcomes(Result(trace)) :
                 Processed("process_reference_sheet", entry, TRUE, trace, ok)

SheetMissing ==
    /\ pc = "sheets"
    /\ idx <= Len(reference_sheets)
    /\ Warned(reference_sheets[idx])

SheetsDone ==
    /\ pc = "sheets"
    /\ idx > Len(reference_sheets)
    /\ pc' = "complete"
    /\ UNCHANGED <<variant, idx, saved, missing, found, disk, call, pass, hist>>

(* main() of process_logos_fixed.py                                        *)

LogoProcessed ==
    /\ pc = "logos"
    /\ idx <= Len(logo_calls)
    /\ \E img0 \in SourceImages :
         LET entry == logo_calls[idx]
             trace == process_logo(img0, entry.convert, entry.remove_bg)
         IN  \E ok \in SaveOutcomes(Result(trace)) :
                 Processed("process_logo", entry, entry.remove_bg, trace, ok)

\* No os.path.exists here: Image.open raises FileNotFoundError, main() ends.
LogoOpenFails ==
    /\ pc = "logos"
    /\ idx <= Len(logo_calls)
    /\ missing' = Append(missing, logo_calls[idx].src)
    /\ pc' = "crashed"
    /\ UNCHANGED <<variant, idx, saved, found, disk, call, pass, hist>>

LogosDone ==
    /\ pc = "logos"
    /\ idx > Len(logo_calls)
    /\ pc' = "complete"
    /\ UNCHANGED <<variant, idx, saved, missing, found, disk, call, pass, hist>>

Next ==
    \/ MainStart
    \/ SingleIconMissing
    \/ SingleIconFound
    \/ SinglesDone
    \/ SheetMissing
    \/ SheetFound
    \/ SheetsDone
    \/ LogoOpenFails
    \/ LogoProcessed
    \/ LogosDone

Spec == Init /\ [][Next]_vars

----------------------------------------------------------------------------
(* Reading the trace of a call                                             *)

StepsNamed(name) == {k \in 2..Len(hist) : hist[k].step = name}
Before(k) == hist[k - 1].img
After(k) == hist[k].img
Indices(img) == 1..Len(img.data)
StepNames == [k \in 1..Len(hist) |-> hist[k].step]
Sum3(p) == p[1] + p[2] + p[3]
SqDistToOrange(p) ==
    (p[1] - 255) * (p[1] - 255) + (p[2] - 149) * (p[2] - 149) + p[3] * p[3]

----------------------------------------------------------------------------
\* C1: background removal, in both scripts, turns a pixel whose R, G and B
\* all exceed 240 into (255,255,255,0), else a pixel whose R, G and B are
\* all below the dark threshold (20 in process_logos.py, 15 in
\* process_logos_fixed.py) into (0,0,0,0), and leaves every other pixel,
\* alpha included, as it was.
C1_BackgroundRemoval ==
    \A k \in StepsNamed("remove_bg") : \A j \in Indices(Before(k)) :
        LET p == Before(k).data[j]
            q == After(k).data[j]
            dark == IF variant = Orig THEN 20 ELSE 15
            light == p[1] > 240 /\ p[2] > 240 /\ p[3] > 240
            black == p[1] < dark /\ p[2] < dark /\ p[3] < dark
        IN  /\ Len(After(k).data) = Len(Before(k).data)
            /\ light => q = <<255, 255, 255, 0>>
            /\ (~light /\ black) => q = <<0, 0, 0, 0>>
            /\ (~light /\ ~black) => q = p
            /\ (light \/ black) => q[4] = 0

\* A sheet of the fixed script in which background removal cleared a light
\* pixel and a dark pixel and kept a third, visible one.
C1_Witness ==
    /\ variant = Fixed
    /\ \E k \in StepsNamed("remove_bg") :
         /\ \E j \in Indices(Before(k)) :
              /\ Before(k).data[j][1] > 240
              /\ Before(k).data[j][4] = 255
              /\ After(k).data[j] = <<255, 255, 255, 0>>
         /\ \E j \in Indices(Before(k)) :
              /\ Before(k).data[j][1] < 15
              /\ Before(k).data[j][4] = 255
              /\ After(k).data[j] = <<0, 0, 0, 0>>
         /\ \E j \in Indices(Before(k)) :
              /\ After(k).data[j] = Before(k).data[j]
              /\ After(k).data[j][4] = 255

----------------------------------------------------------------------------
\* The warm sample colours, as pixels of every sampled alpha.
WarmSamples == {c \o <<a>> : c \in NearOrange, a \in Alphas}

\* What the recolor of the running script makes of one pixel.
Recolored(p) == IF variant = Orig THEN convert_item(p, 50) ELSE convert_pixel_fixed(p)

\* C2 as stated: in both scripts a replaced pixel receives the target purple
\* (106,0,255) scaled by its brightness, each channel the purple channel
\* times (R+G+B)/(3*255) truncated, so replaced pixels of different
\* brightness get different purple intensities, and every channel stays
\* within 0..255.
C2_ScaledInBothVariants ==
    \A k \in StepsNamed("convert") : \A j \in Indices(Before(k)) :
        LET p == Before(k).data[j]
            q == After(k).data[j]
        IN  q # p =>
              /\ q[1] = (106 * Sum3(p)) \div 765
              /\ q[2] = 0
              /\ q[3] = (255 * Sum3(p)) \div 765
              /\ \A c \in 1..3 : q[c] \in 0..255
              /\ \A p2 \in WarmSamples :
                   (Recolored(p2) # p2 /\ Sum3(p2) # Sum3(p))
                     => <<Recolored(p2)[1], Recolored(p2)[2], Recolored(p2)[3]>>
                          # <<q[1], q[2], q[3]>>

\* C2, amended: in process_logos_fixed.py a replaced pixel receives the
\* target purple scaled by its brightness, each channel the purple channel
\* times (R+G+B)/(3*255) truncated, so a brighter replaced pixel never gets
\* a lower purple intensity (two pixels of slightly different brightness can
\* get the same one); in process_logos.py a replaced pixel receives the
\* unscaled purple (106,0,255) whatever its brightness; in both, every
\* channel stays within 0..255.
C2_ScaledInFixedFlatInOrig ==
    \A k \in StepsNamed("convert") : \A j \in Indices(Before(k)) :
        LET p == Before(k).data[j]
            q == After(k).data[j]
        IN  q # p =>
              /\ \A c \in 1..3 : q[c] \in 0..255
              /\ variant = Orig => <<q[1], q[2], q[3]>> = <<106, 0, 255>>
              /\ variant = Fixed =>
                   /\ q[1] = (106 * Sum3(p)) \div 765
                   /\ q[2] = 0
                   /\ q[3] = (255 * Sum3(p)) \div 765
                   /\ \A p2 \in WarmSamples :
                        (Recolored(p2) # p2 /\ Sum3(p2) <= Sum3(p))
                          => /\ Recolored(p2)[1] <= q[1]
                             /\ Recolored(p2)[3] <= q[3]

\* The fixed script recolored (200,61,40), one unit brighter than the
\* sample (200,60,40), to the same purple (41,0,100).
C2_Witness ==
    /\ variant = Fixed
    /\ \E k \in StepsNamed("convert") :
         /\ Before(k).data[1] = <<200, 61, 40, 255>>
         /\ After(k).data[1] = <<41, 0, 100, 255>>
         /\ convert_pixel_fixed(<<200, 60, 40, 255>>) = After(k).data[1]

\* C3: convert_orange_to_purple keeps alpha in both scripts, for recolored
\* and untouched pixels alike, so a pixel that background removal made
\* transparent is still transparent in the image that is saved.
C3_AlphaMaintained ==
    /\ \A k \in StepsNamed("convert") :
         /\ Len(After(k).data) = Len(Before(k).data)
         /\ \A j \in Indices(Before(k)) :
               After(k).data[j][4] = Before(k).data[j][4]
    /\ \A b \in StepsNamed("remove_bg") : \A s \in StepsNamed("save") :
         \A x \in 0..(After(s).w - 1) : \A y \in 0..(After(s).h - 1) :
            (/\ PixelAt(After(b), x, y) # PixelAt(Before(b), x, y)
             /\ PixelAt(After(b), x, y)[4] = 0)
              => PixelAt(After(s), x, y)[4] = 0

\* A saved image of a recoloring call that holds a pixel cleared by
\* background removal and a recolored pixel that is neither opaque nor
\* cleared.
C3_Witness ==
    \E b \in StepsNamed("remove_bg") : \E k \in StepsNamed("convert") :
      \E s \in StepsNamed("save") :
        /\ b < k
        /\ k < s
        /\ \E j \in Indices(After(s)) :
             /\ Before(b).data[j][4] = 255
             /\ After(b).data[j][4] = 0
             /\ After(s).data[j][4] = 0
        /\ \E j \in Indices(After(s)) :
             /\ After(k).data[j] # Before(k).data[j]
             /\ After(s).data[j][4] = 128

\* C4: in process_logos_fixed.py, convert_orange_to_purple leaves unchanged
\* every pixel with alpha < 10, or R, G, B all < 30, or R, G, B all > 200,
\* or B above both R and G; a pixel is modified only if R > 150, G > 50,
\* B < 150 and R > G > B.
C4_BluesBlacksLightKept ==
    variant = Fixed =>
      \A k \in StepsNamed("convert") : \A j \in Indices(Before(k)) :
        LET p == Before(k).data[j]
            q == After(k).data[j]
        IN  /\ (\/ p[4] < 10
                \/ (p[1] < 30 /\ p[2] < 30 /\ p[3] < 30)
                \/ (p[1] > 200 /\ p[2] > 200 /\ p[3] > 200)
                \/ (p[3] > p[1] /\ p[3] > p[2])) => q = p
            /\ q # p => /\ p[1] > 150
                        /\ p[2] > 50
                        /\ p[3] < 150
                        /\ p[1] > p[2]
                        /\ p[2] > p[3]

\* The fixed script recolored an orange pixel of a sheet and kept its blue
\* pixel, its near-black pixel, its light pixel and its transparent pixel.
C4_Witness ==
    /\ variant = Fixed
    /\ \E k \in StepsNamed("convert") :
         /\ \E j \in Indices(Before(k)) :
              Before(k).data[j] = <<255, 149, 0, 255>> /\ After(k).data[j] # Before(k).data[j]
         /\ \E j \in Indices(Before(k)) :
              Before(k).data[j] = <<0, 212, 255, 255>> /\ After(k).data[j] = Before(k).data[j]
         /\ \E j \in Indices(Before(k)) :
              Before(k).data[j] = <<5, 5, 5, 255>> /\ After(k).data[j] = Before(k).data[j]
         /\ \E j \in Indices(Before(k)) :
              Before(k).data[j] = <<250, 250, 250, 255>> /\ After(k).data[j] = Before(k).data[j]
         /\ \E j \in Indices(Before(k)) :
              Before(k).data[j] = <<128, 128, 128, 5>> /\ After(k).data[j] = Before(k).data[j]

----------------------------------------------------------------------------
\* C6: process_reference_sheet crops the box (0, 0, s, s) with
\* s = min(W // 3, H // 2) out of the background-removed (and, when asked,
\* recolored) W x H sheet: the box lies inside the sheet, the icon is a
\* square of side s, and each icon pixel is the sheet's pixel at the same
\* coordinates.
C6_CropBox ==
    \A k \in StepsNamed("crop") :
        LET sheet == Before(k)
            icon == After(k)
            s == IF sheet.w \div 3 < sheet.h \div 2
                 THEN sheet.w \div 3 ELSE sheet.h \div 2
        IN  /\ hist[k - 1].step = (IF call.convert THEN "convert" ELSE "remove_bg")
            /\ sheet.w = hist[1].img.w
            /\ sheet.h = hist[1].img.h
            /\ s <= sheet.w
            /\ s <= sheet.h
            /\ icon.w = s
            /\ icon.h = s
            /\ Len(icon.data) = s * s
            /\ \A x \in 0..(s - 1) : \A y \in 0..(s - 1) :
                 icon.data[y * s + x + 1] = sheet.data[y * sheet.w + x + 1]

\* A recolored 6 x 4 sheet cropped to a 2 x 2 icon that was saved and whose
\* four pixels are not all alike.
C6_Witness ==
    /\ call.convert
    /\ StepsNamed("save") # {}
    /\ \E k \in StepsNamed("crop") :
         /\ Before(k).w = 6
         /\ Before(k).h = 4
         /\ After(k).w = 2
         /\ After(k).data[1] # After(k).data[2]
         /\ After(k).data[1] # After(k).data[3]
         /\ After(k).data[2] # After(k).data[4]

\* C7: in process_logos.py, convert_orange_to_purple recolors a pixel if
\* and only if the squared distance of its (R,G,B) to orange (255,149,0) is
\* below 2500 (distance strictly less than 50): that pixel becomes
\* (106,0,255) with its alpha kept, any other pixel is unchanged, and alpha
\* plays no part in the decision.
C7_DistanceThreshold ==
    variant = Orig =>
      \A k \in StepsNamed("convert") : \A j \in Indices(Before(k)) :
        LET p == Before(k).data[j]
            q == After(k).data[j]
        IN  /\ SqDistToOrange(p) < 2500 => q = <<106, 0, 255, p[4]>>
            /\ SqDistToOrange(p) >= 2500 => q = p

\* process_logos.py recolored the nearly transparent pixel (206,142,7,9),
\* at squared distance 2499, while (205,149,0), at exactly 2500, stays.
C7_Witness ==
    /\ variant = Orig
    /\ \E k \in StepsNamed("convert") :
         /\ Before(k).data[1] = <<206, 142, 7, 9>>
         /\ SqDistToOrange(Before(k).data[1]) = 2499
         /\ After(k).data[1] = <<106, 0, 255, 9>>
         /\ SqDistToOrange(<<205, 149, 0, 9>>) = 2500
         /\ convert_item(<<205, 149, 0, 9>>, 50) = <<205, 149, 0, 9>>

\* C8: in process_logos_fixed.py the dark, light and blue skip guards of
\* convert_orange_to_purple never decide the outcome: a pixel is rewritten
\* to the scaled purple exactly when alpha >= 10 and is_orange_tone holds,
\* as in a function keeping only the alpha guard and the tone test; and
\* is_orange_tone does not depend on its tolerance argument.
C8_GuardsRedundant ==
    variant = Fixed =>
      \A k \in StepsNamed("convert") : \A j \in Indices(Before(k)) :
        LET p == Before(k).data[j]
            q == After(k).data[j]
            tone == is_orange_tone(p[1], p[2], p[3], 80)
            purple == <<(106 * Sum3(p)) \div 765, 0, (255 * Sum3(p)) \div 765, p[4]>>
        IN  /\ q = (IF p[4] >= 10 /\ tone THEN purple ELSE p)
            /\ q # p <=> (p[4] >= 10 /\ tone)
            /\ (\/ (p[1] < 30 /\ p[2] < 30 /\ p[3] < 30)
                \/ (p[1] > 200 /\ p[2] > 200 /\ p[3] > 200)
                \/ (p[3] > p[1] /\ p[3] > p[2])) => ~tone
            /\ \A t \in {0, 1, 50, 80, 255, 442} :
                 is_orange_tone(p[1], p[2], p[3], t) = tone

\* The fixed script rewrote the warm pixel (151,150,149,10), which is just
\* visible and as close to grey as an orange tone gets.
C8_Witness ==
    /\ variant = Fixed
    /\ \E k \in StepsNamed("convert") :
         /\ Before(k).data[1] = <<151, 150, 149, 10>>
         /\ After(k).data[1] = <<62, 0, 150, 10>>

\* C9: the per-image pipeline is idempotent in both scripts: background
\* removal followed by the optional recolor, run on its own output, yields
\* that output again.
C9_Idempotent ==
    (/\ pass >= 2
     /\ pc = "call"
     /\ call.fn \in {"process_single_icon", "process_logo"}
     /\ call.remove_bg)
      => /\ Result(hist) = hist[1].img
         /\ \A k \in 2..Len(hist) : hist[k].img = hist[1].img

\* A second run of the recoloring pipeline of the fixed script over the
\* purple (55,0,134) that its first run made of orange (255,149,0).
C9_Witness ==
    /\ pass = 2
    /\ variant = Fixed
    /\ call.fn = "process_logo"
    /\ call.remove_bg
    /\ call.convert
    /\ hist[1].img.data[1] = <<55, 0, 134, 255>>
    /\ StepNames = <<"open", "remove_bg", "convert", "save">>

----------------------------------------------------------------------------
(* The entries of the running script, in the order main() handles them     *)

Entries ==
    IF variant = Orig
    THEN [k \in 1..(Len(files_to_process) + Len(reference_sheets)) |->
            IF k <= Len(files_to_process)
            THEN [src |-> files_to_process[k].src, out |-> files_to_process[k].out,
                  convert |-> files_to_process[k].convert, sheet |-> FALSE]
            ELSE LET e == reference_sheets[k - Len(files_to_process)]
                 IN  [src |-> e.src, out |-> e.out, convert |-> e.convert,
                      sheet |-> TRUE]]
    ELSE [k \in 1..Len(logo_calls) |->
            [src |-> logo_calls[k].src, out |-> logo_calls[k].out,
             convert |-> logo_calls[k].convert, sheet |-> FALSE]]

\* How many entries main() has dealt with.
Handled == Len(found) + Len(missing)

IsFound(e) == \E n \in 1..Len(found) : found[n] = e.src

ExpectedSaved == SelectSeq([k \in 1..Len(Entries) |-> Entries[k]], IsFound)

C10_Safety ==
    /\ variant = Orig =>
         /\ pc # "crashed"
         /\ Len(saved) = Len(found)
         /\ \A n \in 1..Len(saved) :
              \E k \in 1..Len(Entries) :
                 Entries[k].src = found[n] /\ Entries[k].out = saved[n]
         /\ \A m \in 1..Len(missing) : \A n \in 1..Len(found) :
              missing[m] # found[n]
         /\ pc = "complete" =>
              /\ Handled = Len(Entries)
              /\ Len(saved) = Len(ExpectedSaved)
              /\ \A n \in 1..Len(saved) : saved[n] = ExpectedSaved[n].out
              /\ \A k \in 1..Len(Entries) :
                   Cardinality({n \in 1..Len(saved) : saved[n] = Entries[k].out})
                     = (IF IsFound(Entries[k]) THEN 1 ELSE 0)
    /\ variant = Fixed =>
         /\ missing # <<>> => pc = "crashed"
         /\ pc = "complete" => Len(saved) = Len(logo_calls)

\* How far main() of process_logos.py has come: a step of the run raises it,
\* and it ends at RankComplete.
RankComplete == Len(files_to_process) + Len(reference_sheets) + 3

Rank ==
    CASE pc = "start" -> 0
      [] pc = "singles" -> idx
      [] pc = "sheets" -> Len(files_to_process) + 1 + idx
      [] pc = "complete" -> RankComplete
      [] OTHER -> 0 - 1

\* Short of "Processing complete", process_logos.py always has a next step.
C10_NotStuck == (variant = Orig /\ pc # "complete") => ENABLED Next

====
